---- MODULE Spec2Model ----
(***************************************************************************)
(* A model of python_tools/pydantic-to-godot/codegen.py: the type          *)
(* resolver (get_gd_type), the default value emitter                       *)
(* (get_default_value_code), the class code generator                      *)
(* (generate_class_code) together with the behaviour of the GDScript it    *)
(* emits, and the file loop of process_all_schemas with its statistics.    *)
(***************************************************************************)
EXTENDS Integers, Sequences, FiniteSets, TLC

VARIABLES
    last,        \* the operation applied last
    py_type,     \* the argument of the last get_gd_type call
    gd_type,     \* its outcome
    field,       \* the argument of the last get_default_value_code call
    default_val, \* its result
    models,      \* the pydantic model classes handed to the generator
    generated,   \* the class generated for each of them, by position
    regenerated, \* the same from a second pass, in an order of its own
    target,      \* the class name the last run-time operation was called on
    input,       \* the argument of the last from_dict call
    ret,         \* what the last from_dict or get_by_id call returned
    source,      \* the instance of the last to_dict call
    encoded,     \* what the last to_dict call returned
    query,       \* the storage and identifier of the last get_by_id call
    pc,          \* where process_all_schemas stands
    stats,       \* its ConversionStats
    remaining,   \* how many files the scan has yet to yield
    written,     \* the files written so far, each with its content
    mode,        \* the generated function being executed: from_dict or to_dict
    run_pc,      \* idle, running, done, error or overflow
    stack,       \* the call stack of the execution, its top last
    heap         \* the instances to_dict runs on, by identity

typeVars == <<py_type, gd_type, field, default_val>>
genVars  == <<models, generated, regenerated>>
runVars  == <<target, input, ret, source, encoded, query>>
scanVars == <<pc, stats, remaining, written>>
execVars == <<mode, run_pc, stack, heap>>
vars == <<last, typeVars, genVars, runVars, scanVars, execVars>>

(***************************************************************************)
(* Bounds of the model.                                                    *)
(***************************************************************************)
MaxDepth == 2
MaxFields == 2
MaxObjDepth == 2
MaxFiles == 3
MaxObjs == 2
MaxDataDepth == 2

(***************************************************************************)
(* Text.  A name that the program lower-cases is a sequence of one         *)
(* character strings; emitted text is a string.                            *)
(***************************************************************************)
RECURSIVE Str(_)
Str(cs) == IF cs = <<>> THEN "" ELSE Head(cs) \o Str(Tail(cs))

Range(s) == {s[i] : i \in DOMAIN s}

UpperCase == <<"A", "B", "C", "D", "E", "F", "G", "H", "I", "J", "K", "L", "M",
               "N", "O", "P", "Q", "R", "S", "T", "U", "V", "W", "X", "Y", "Z">>
LowerCase == <<"a", "b", "c", "d", "e", "f", "g", "h", "i", "j", "k", "l", "m",
               "n", "o", "p", "q", "r", "s", "t", "u", "v", "w", "x", "y", "z">>

\* str.lower(), on the letters of the alphabet
lower(cs) ==
    [i \in DOMAIN cs |->
        IF \E k \in DOMAIN UpperCase : UpperCase[k] = cs[i]
        THEN LowerCase[CHOOSE k \in DOMAIN UpperCase : UpperCase[k] = cs[i]]
        ELSE cs[i]]

DigitChars == <<"0", "1", "2", "3", "4", "5", "6", "7", "8", "9">>

RECURSIVE nat_str(_)
nat_str(n) ==
    IF n < 10 THEN DigitChars[n + 1]
    ELSE nat_str(n \div 10) \o DigitChars[(n % 10) + 1]

RECURSIVE digits_str(_)
digits_str(ds) ==
    IF ds = <<>> THEN "" ELSE DigitChars[Head(ds) + 1] \o digits_str(Tail(ds))

(***************************************************************************)
(* Python type annotations, as typing.get_origin and typing.get_args see   *)
(* them: a plain class has no origin and no arguments; an alias of the     *)
(* typing module has both and is no instance of type.                      *)
(***************************************************************************)
n_int      == <<"i", "n", "t">>
n_float    == <<"f", "l", "o", "a", "t">>
n_str      == <<"s", "t", "r">>
n_bool     == <<"b", "o", "o", "l">>
n_dict     == <<"d", "i", "c", "t">>
n_list     == <<"l", "i", "s", "t">>
n_bytes    == <<"b", "y", "t", "e", "s">>
n_NoneType == <<"N", "o", "n", "e", "T", "y", "p", "e">>
n_Weapon   == <<"W", "e", "a", "p", "o", "n">>
n_Ammo     == <<"A", "m", "m", "o">>

Class(n) ==
    [origin |-> "", args |-> <<>>, name |-> n, is_type |-> TRUE, is_model |-> FALSE]
Model(n) ==
    [origin |-> "", args |-> <<>>, name |-> n, is_type |-> TRUE, is_model |-> TRUE]
Alias(o, a) ==
    [origin |-> o, args |-> a, name |-> <<>>, is_type |-> FALSE, is_model |-> FALSE]

NoneType    == Class(n_NoneType)
ListOf(t)   == Alias("list", <<t>>)
Optional(t) == Alias("Union", <<t, NoneType>>)
DictOf(k, v) == Alias("dict", <<k, v>>)
UnionOf(a, b) == Alias("Union", <<a, b>>)
BareList    == Alias("list", <<>>)       \* typing.List without a parameter

get_origin(t) == t.origin
get_args(t)   == t.args
is_BaseModel_subclass(t) == t.is_type /\ t.is_model

TYPE_MAP ==
    (Class(n_int) :> "int") @@ (Class(n_float) :> "float") @@
    (Class(n_str) :> "String") @@ (Class(n_bool) :> "bool") @@
    (Class(n_dict) :> "Dictionary") @@ (Class(n_list) :> "Array")

\* what a call returns, or the exception it raises
Ok(v)    == [raised |-> FALSE, value |-> v]
Raise(e) == [raised |-> TRUE, value |-> e]

TYPE_MAP_get_blank(key, default) ==
    IF key \in DOMAIN TYPE_MAP THEN TYPE_MAP[key] ELSE ""

TYPE_MAP_first(key, default) ==
    IF key \in DOMAIN TYPE_MAP THEN "int" ELSE default

\* TYPE_MAP.get(py_type, "Variant")
TYPE_MAP_get(key, default) ==
    IF key \in DOMAIN TYPE_MAP THEN TYPE_MAP[key] ELSE default

class_suffix == "Data"

RECURSIVE get_gd_type(_)
get_gd_type(t) ==
    IF get_origin(t) = "Union" /\ NoneType \in Range(get_args(t))
    THEN Ok("Variant")
    ELSE IF get_origin(t) = "list"
    THEN IF get_args(t) = <<>>
         THEN Raise("tuple index out of range")         \* args[0] of ()
         ELSE LET inner_type == get_gd_type(get_args(t)[1])
              IN  IF inner_type.raised THEN inner_type
                  ELSE Ok("Array[" \o inner_type.value \o "]")
    ELSE IF is_BaseModel_subclass(t)
    THEN Ok(Str(t.name) \o class_suffix)
    ELSE Ok(TYPE_MAP_get(t, "Variant"))

(***************************************************************************)
(* Python values a pydantic field can hold as its default.  The tag t      *)
(* names the class of the value; bool is a subclass of int.                *)
(***************************************************************************)
PyNone       == [t |-> "NoneType", v |-> <<>>]
PyBool(b)    == [t |-> "bool", v |-> <<b>>]
PyInt(n)     == [t |-> "int", v |-> <<n>>]
PyFloat(i, f) == [t |-> "float", v |-> <<i, f>>]     \* i.f, f the digits
PyStr(s)     == [t |-> "str", v |-> <<s>>]
PyList(xs)   == [t |-> "list", v |-> xs]
PyDict(kvs)  == [t |-> "dict", v |-> kvs]
PyTuple(xs)  == [t |-> "tuple", v |-> xs]
PydanticUndefined == [t |-> "PydanticUndefinedType", v |-> <<>>]

isinstance(val, cls) ==
    \/ val.t = cls
    \/ cls = "int" /\ val.t = "bool"

\* str(val), what an f-string renders
py_str(val) ==
    CASE val.t = "NoneType" -> "None"
      [] val.t = "bool"  -> IF val.v[1] THEN "True" ELSE "False"
      [] val.t = "int"   -> IF val.v[1] < 0 THEN "-" \o nat_str(-val.v[1])
                            ELSE nat_str(val.v[1])
      [] val.t = "float" -> nat_str(val.v[1]) \o "." \o digits_str(val.v[2])
      [] val.t = "str"   -> val.v[1]
      [] OTHER -> "?"

\* FieldInfo: is_required() holds when there is neither default nor factory
FieldInfo(req, d) == [required |-> req, default |-> d]
is_required(f) == f.required

get_default_value_code_int_first(f) ==
    IF is_required(f) THEN ""
    ELSE LET val == f.default IN
         IF val = PyNone THEN " = null"
         ELSE IF isinstance(val, "str") THEN " = \"" \o py_str(val) \o "\""
         ELSE IF isinstance(val, "int") \/ isinstance(val, "float")
              THEN " = " \o py_str(val)
         ELSE IF isinstance(val, "bool")
              THEN (IF val.v[1] THEN " = true" ELSE " = false")
         ELSE IF isinstance(val, "list") THEN " = []"
         ELSE IF isinstance(val, "dict") THEN " = {}"
         ELSE ""

get_default_value_code(f) ==
    IF is_required(f) THEN ""
    ELSE LET val == f.default IN
         IF val = PyNone THEN " = null"
         ELSE IF isinstance(val, "bool")
              THEN (IF val.v[1] THEN " = true" ELSE " = false")
         ELSE IF isinstance(val, "str") THEN " = \"" \o py_str(val) \o "\""
         ELSE IF isinstance(val, "int") \/ isinstance(val, "float")
              THEN " = " \o py_str(val)
         ELSE IF isinstance(val, "list") THEN " = []"
         ELSE IF isinstance(val, "dict") THEN " = {}"
         ELSE ""

(***************************************************************************)
(* The generated GDScript at run time.  A Variant carries the tag of its   *)
(* type.  A String carries the Variant that JSON.parse_string makes of it, *)
(* null when it is no JSON text.  An instance of a generated class is its  *)
(* class name with the values of its fields.                               *)
(***************************************************************************)
GNull        == [t |-> "Nil", v |-> <<>>]
GBool(b)     == [t |-> "bool", v |-> <<b>>]
GInt(n)      == [t |-> "int", v |-> <<n>>]
GFloat(i, f) == [t |-> "float", v |-> <<i, f>>]
GText(s)     == [t |-> "String", v |-> <<s, GNull>>]       \* no JSON text
GJson(x)     == [t |-> "String", v |-> <<"json", x>>]      \* the JSON text of x
GArray(xs)   == [t |-> "Array", v |-> xs]
GDict(m)     == [t |-> "Dictionary", v |-> m]
GObject(cn, fs) == [t |-> "Object", v |-> <<cn, fs>>]

EmptyMap == [k \in {} |-> GNull]

is_String(x) == x.t = "String"
is_Array(x)  == x.t = "Array"
JSON_parse_string(x) == x.v[2]

\* the value a declaration without initializer starts with
type_default(gd) ==
    CASE gd = "int" -> GInt(0)
      [] gd = "float" -> GFloat(0, <<0>>)
      [] gd = "String" -> GText("")
      [] gd = "bool" -> GBool(FALSE)
      [] gd = "Dictionary" -> GDict(EmptyMap)
      [] gd = "Array" -> GArray(<<>>)
      [] OTHER -> GNull

\* the value of a field right after new(): its initializer, else the default
\* of its type (an empty array for every Array[...])
declared_default(f) ==
    LET code == get_default_value_code(f.info)
        val  == f.info.default
    IN  IF code = ""
        THEN IF get_origin(f.annotation) = "list"
             THEN GArray(<<>>)
             ELSE type_default(get_gd_type(f.annotation).value)
        ELSE CASE val.t = "NoneType" -> GNull
               [] val.t = "bool" -> GBool(val.v[1])
               [] val.t = "int" -> GInt(val.v[1])
               [] val.t = "float" -> GFloat(val.v[1], val.v[2])
               [] val.t = "str" -> GText(val.v[1])
               [] val.t = "list" -> GArray(<<>>)
               [] OTHER -> GDict(EmptyMap)

(***************************************************************************)
(* The class code generator.  A pydantic model class is its __name__ and   *)
(* its model_fields, in declaration order; each field has a name, an       *)
(* annotation and a FieldInfo.  The generated class is kept as the lines   *)
(* of its text and, beside them, as the statements those lines are: the    *)
(* declarations, the branch taken for each field in from_dict and in       *)
(* to_dict, and whether get_by_id was emitted.                             *)
(***************************************************************************)
ModelCls(n, fs) == [name |-> n, fields |-> fs]
Field(n, t, f)  == [name |-> n, annotation |-> t, info |-> f]

RECURSIVE Flatten(_)
Flatten(ss) == IF ss = <<>> THEN <<>> ELSE Head(ss) \o Flatten(Tail(ss))

FieldNames(fields) == {fields[i].name : i \in DOMAIN fields}

\* the element class of List[Model], the test of lines 134 and 175
is_model_list(t) ==
    /\ get_origin(t) = "list"
    /\ get_args(t)[1].is_type
    /\ is_BaseModel_subclass(get_args(t)[1])

\* f"{model_cls.__name__}Data"
class_name_of(n) == Str(n) \o class_suffix

\* model_cls.__name__.lower() + "s"
table_name_of(n) == Str(lower(n)) \o "s"

inner_cls_of_bare(t) ==
    IF get_origin(t) = "list" THEN Str(get_args(t)[1].name) ELSE Str(t.name)

\* inner_cls of the branches A and B
inner_cls_of(t) ==
    IF get_origin(t) = "list" THEN Str(get_args(t)[1].name) \o class_suffix
    ELSE Str(t.name) \o class_suffix

\* the branch of from_dict a field's annotation selects
from_dict_logic(t) ==
    IF is_model_list(t) THEN "A"
    ELSE IF is_BaseModel_subclass(t) THEN "B"
    ELSE IF get_origin(t) \in {"list", "dict"} THEN "C"
    ELSE "D"

to_dict_logic_flat(t) == "C"

\* the branch of to_dict a field's annotation selects
to_dict_logic(t) ==
    IF is_model_list(t) THEN "A"
    ELSE IF is_BaseModel_subclass(t) THEN "B"
    ELSE "C"

var_line(f) ==
    "var " \o f.name \o ": " \o get_gd_type(f.annotation).value
           \o get_default_value_code(f.info)

from_dict_lines(f) ==
    LET name == f.name
        access_code == "data['" \o name \o "']"
        logic == from_dict_logic(f.annotation)
    IN  CASE logic = "A" ->
               << "\tif data.has('" \o name \o "'):",
                  "\t\tvar raw = " \o access_code,
                  "\t\tif raw is String: raw = JSON.parse_string(raw)",
                  "\t\tif raw is Array:",
                  "\t\t\tinstance." \o name \o " = []",
                  "\t\t\tfor item in raw:",
                  "\t\t\t\tinstance." \o name \o ".append("
                      \o inner_cls_of(f.annotation) \o ".from_dict(item))" >>
          [] logic = "B" ->
               << "\tif data.has('" \o name \o "'):",
                  "\t\tvar raw = " \o access_code,
                  "\t\tif raw is String: raw = JSON.parse_string(raw)",
                  "\t\tinstance." \o name \o " = "
                      \o inner_cls_of(f.annotation) \o ".from_dict(raw)" >>
          [] logic = "C" ->
               << "\tif data.has('" \o name \o "'):",
                  "\t\tvar raw = " \o access_code,
                  "\t\tif raw is String: instance." \o name
                      \o " = JSON.parse_string(raw)",
                  "\t\telse: instance." \o name \o " = raw" >>
          [] OTHER ->
               << "\tif data.has('" \o name \o "'): instance." \o name
                      \o " = " \o access_code >>

to_dict_lines(f) ==
    LET name == f.name
        logic == to_dict_logic(f.annotation)
    IN  CASE logic = "A" ->
               << "\tif " \o name \o " != null:",
                  "\t\tdata['" \o name \o "'] = []",
                  "\t\tfor item in " \o name \o ":",
                  "\t\t\tdata['" \o name \o "'].append(item.to_dict())" >>
          [] logic = "B" ->
               << "\tif " \o name \o " != null:",
                  "\t\tdata['" \o name \o "'] = " \o name \o ".to_dict()" >>
          [] OTHER ->
               << "\tdata['" \o name \o "'] = " \o name >>

get_by_id_emitted_first(fields) == fields # <<>> /\ fields[1].name = "id"

\* 'id' in fields
get_by_id_emitted(fields) == "id" \in FieldNames(fields)

get_by_id_lines(class_name) ==
    << "# SQLite Helper",
       "static func get_by_id(db: SQLite, id: String) -> " \o class_name \o ":",
       "\tvar result = db.select_rows(TABLE_NAME, \"id = '\" + id + \"'\", [\"*\"])",
       "\tif result.is_empty(): return null",
       "\treturn from_dict(result[0])" >>

generate_class_code(model_cls) ==
    LET class_name == class_name_of(model_cls.name)
        table_name == table_name_of(model_cls.name)
        fields == model_cls.fields
        failed == {i \in DOMAIN fields : get_gd_type(fields[i].annotation).raised}
    IN  IF failed # {}
        THEN get_gd_type(fields[CHOOSE i \in failed : \A j \in failed : i <= j].annotation)
        ELSE Ok(
          [class_name |-> class_name,
           table_name |-> table_name,
           vars |-> [i \in DOMAIN fields |->
                       [name |-> fields[i].name,
                        gd_type |-> get_gd_type(fields[i].annotation).value,
                        default_val |-> get_default_value_code(fields[i].info),
                        init |-> declared_default(fields[i])]],
           from_dict |-> [i \in DOMAIN fields |->
                       [name |-> fields[i].name,
                        logic |-> from_dict_logic(fields[i].annotation),
                        inner_cls |->
                            IF from_dict_logic(fields[i].annotation) \in {"A", "B"}
                            THEN inner_cls_of(fields[i].annotation) ELSE ""]],
           to_dict |-> [i \in DOMAIN fields |->
                       [name |-> fields[i].name,
                        logic |-> to_dict_logic(fields[i].annotation)]],
           get_by_id |-> get_by_id_emitted(fields),
           lines |->
               << "class_name " \o class_name,
                  "extends RefCounted",
                  "",
                  "const TABLE_NAME = \"" \o table_name \o "\"",
                  "" >>
               \o [i \in DOMAIN fields |-> var_line(fields[i])]
               \o << "",
                     "static func from_dict(data: Dictionary) -> " \o class_name \o ":",
                     "\tvar instance = " \o class_name \o ".new()" >>
               \o Flatten([i \in DOMAIN fields |-> from_dict_lines(fields[i])])
               \o << "\treturn instance",
                     "",
                     "func to_dict() -> Dictionary:",
                     "\tvar data = {}" >>
               \o Flatten([i \in DOMAIN fields |-> to_dict_lines(fields[i])])
               \o << "\treturn data", "" >>
               \o (IF get_by_id_emitted(fields) THEN get_by_id_lines(class_name)
                   ELSE <<>>)])

(***************************************************************************)
(* The operations of the generated class.                                  *)
(***************************************************************************)
\* ClassName.new()
new_instance(cls) ==
    GObject(cls.class_name,
            [n \in {cls.vars[i].name : i \in DOMAIN cls.vars} |->
                (cls.vars[CHOOSE i \in DOMAIN cls.vars : cls.vars[i].name = n]).init])

data_has_always(data, name) == TRUE

\* data.has('name')
data_has(data, name) == name \in DOMAIN data.v

\* data['name']
data_get(data, name) ==
    IF name \in DOMAIN data.v THEN Ok(data.v[name]) ELSE Raise("invalid key")

\* if raw is String: ... JSON.parse_string(raw), in the branches A, B and C
parsed_raw(logic, raw) ==
    IF logic \in {"A", "B", "C"} /\ is_String(raw) THEN JSON_parse_string(raw)
    ELSE raw

FirstRaised(rs) ==
    rs[CHOOSE i \in DOMAIN rs : rs[i].raised /\ \A j \in DOMAIN rs : rs[j].raised => i <= j]

RECURSIVE from_dict(_, _, _)
from_dict(classes, cn, data) ==
    IF cn \notin DOMAIN classes THEN Raise("unknown class " \o cn)
    ELSE IF data.t # "Dictionary" THEN Raise("argument is no Dictionary")
    ELSE
    LET cls == classes[cn]
        instance == new_instance(cls)
        step(e) ==
            IF ~data_has(data, e.name) THEN Ok(instance.v[2][e.name])
            ELSE LET got == data_get(data, e.name) IN
                 IF got.raised THEN got
                 ELSE LET raw == parsed_raw(e.logic, got.value) IN
                      CASE e.logic = "A" ->
                             IF is_Array(raw)
                             THEN LET items == [k \in DOMAIN raw.v |->
                                                   from_dict(classes, e.inner_cls, raw.v[k])]
                                  IN  IF \E k \in DOMAIN items : items[k].raised
                                      THEN FirstRaised(items)
                                      ELSE Ok(GArray([k \in DOMAIN items |-> items[k].value]))
                             ELSE Ok(instance.v[2][e.name])
                        [] e.logic = "B" -> from_dict(classes, e.inner_cls, raw)
                        [] OTHER -> Ok(raw)
        outcome == [i \in DOMAIN cls.from_dict |-> step(cls.from_dict[i])]
    IN  IF \E i \in DOMAIN outcome : outcome[i].raised
        THEN FirstRaised(outcome)
        ELSE Ok(GObject(cn,
                 [n \in DOMAIN instance.v[2] |->
                     (outcome[CHOOSE i \in DOMAIN cls.from_dict :
                                 cls.from_dict[i].name = n]).value]))

RECURSIVE to_dict(_, _)
to_dict(classes, self) ==
    IF self.t # "Object" THEN Raise("no method to_dict")
    ELSE IF self.v[1] \notin DOMAIN classes THEN Raise("unknown class " \o self.v[1])
    ELSE
    LET cls == classes[self.v[1]]
        value(e) == self.v[2][e.name]
        step(e) ==
            CASE e.logic = "A" ->
                   IF value(e) = GNull THEN Ok(GNull)
                   ELSE IF ~is_Array(value(e)) THEN Raise("cannot iterate")
                   ELSE LET items == [k \in DOMAIN value(e).v |->
                                         to_dict(classes, value(e).v[k])]
                        IN  IF \E k \in DOMAIN items : items[k].raised
                            THEN FirstRaised(items)
                            ELSE Ok(GArray([k \in DOMAIN items |-> items[k].value]))
              [] e.logic = "B" ->
                   IF value(e) = GNull THEN Ok(GNull)
                   ELSE to_dict(classes, value(e))
              [] OTHER -> Ok(value(e))
        outcome == [i \in DOMAIN cls.to_dict |-> step(cls.to_dict[i])]
        \* the branches A and B set no key when the field is null
        kept == {i \in DOMAIN cls.to_dict :
                    cls.to_dict[i].logic = "C" \/ value(cls.to_dict[i]) # GNull}
    IN  IF \E i \in DOMAIN outcome : outcome[i].raised
        THEN FirstRaised(outcome)
        ELSE Ok(GDict([n \in {cls.to_dict[i].name : i \in kept} |->
                          (outcome[CHOOSE i \in kept : cls.to_dict[i].name = n]).value]))

\* db.select_rows(table, "id = '<id>'", ["*"]) of the storage: the rows of the
\* table whose id equals the identifier
select_rows(db, table, id) ==
    IF table \notin DOMAIN db THEN <<>>
    ELSE SelectSeq(db[table], LAMBDA row : "id" \in DOMAIN row.v /\ row.v["id"] = GText(id))

get_by_id(classes, cn, db, id) ==
    LET result == select_rows(db, classes[cn].table_name, id)
    IN  IF result = <<>> THEN Ok(GNull)
        ELSE from_dict(classes, cn, result[1])

(***************************************************************************)
(* The statistics and the loading of a schema file.  A file is the stem of *)
(* its name, whether importlib makes a module spec of it, the message of   *)
(* the exception its execution raises ("none" when it raises nothing) and  *)
(* the members inspect.getmembers finds in its module, sorted by name.     *)
(***************************************************************************)
ConversionStats ==
    [files_scanned |-> 0, files_success |-> 0, files_failed |-> 0,
     files_skipped |-> 0, models_found |-> 0, errors |-> <<>>]

log_error(st, file_name, msg) ==
    [st EXCEPT !.files_failed = @ + 1,
               !.errors = Append(@, "[FAIL] " \o file_name \o ": " \o msg)]

SchemaFile(stem, spec_ok, exec_error, members) ==
    [stem |-> stem, spec_ok |-> spec_ok, exec_error |-> exec_error, members |-> members]

Member(obj, isclass, is_model, module) ==
    [obj |-> obj, isclass |-> isclass, is_model |-> is_model, module |-> module]

BaseModel == [name |-> <<"B", "a", "s", "e", "M", "o", "d", "e", "l">>, fields |-> <<>>]

file_name(f)   == f.stem \o ".py"
target_path(f) == f.stem \o ".gd"

\* (models, error); an error of "none" stands for None
load_models_from_file(f) ==
    IF ~f.spec_ok THEN <<(<<>>), "Could not create module spec">>
    ELSE IF f.exec_error # "none" THEN <<(<<>>), f.exec_error>>
    ELSE LET own == SelectSeq(f.members,
                        LAMBDA m : /\ m.isclass /\ m.is_model /\ m.obj # BaseModel
                                   /\ m.module = f.stem)
         IN  <<[i \in DOMAIN own |-> own[i].obj], "none">>

\* the truth value of the error: None and the empty message are false
is_error(error) == error \notin {"none", ""}

\* the body of the loop of process_all_schemas for one file; written_ok and
\* printed_ok say whether writing the target and printing the success line
\* raise nothing
process_file(st, out, f, written_ok, printed_ok) ==
    IF file_name(f) = "__init__.py" THEN [stats |-> st, written |-> out]
    ELSE
    LET scanned == [st EXCEPT !.files_scanned = @ + 1]
        loaded  == load_models_from_file(f)
        ms      == loaded[1]
        error   == loaded[2]
        found   == [scanned EXCEPT !.models_found = @ + Len(ms)]
        codes   == [i \in DOMAIN ms |-> generate_class_code(ms[i])]
        gd_content == <<"# GENERATED CODE - DO NOT MODIFY BY HAND", "">>
                        \o Flatten([i \in DOMAIN ms |-> <<codes[i].value.lines, <<"">>>>])
    IN  IF is_error(error)
        THEN [stats |-> log_error(scanned, file_name(f), error), written |-> out]
        ELSE IF ms = <<>>
        THEN [stats |-> [scanned EXCEPT !.files_skipped = @ + 1], written |-> out]
        ELSE IF \E i \in DOMAIN codes : codes[i].raised
        THEN [stats |-> log_error(found, file_name(f),
                                  "Generation failed: " \o FirstRaised(codes).value),
              written |-> out]
        ELSE IF ~written_ok
        THEN [stats |-> log_error(found, file_name(f),
                                  "Generation failed: cannot write"),
              written |-> out]
        ELSE IF ~printed_ok
        THEN [stats |-> log_error([found EXCEPT !.files_success = @ + 1],
                                  file_name(f), "Generation failed: cannot print"),
              written |-> Append(out, <<target_path(f), gd_content>>)]
        ELSE [stats |-> [found EXCEPT !.files_success = @ + 1],
              written |-> Append(out, <<target_path(f), gd_content>>)]

(***************************************************************************)
(* The inputs of the two pure functions.                                   *)
(***************************************************************************)
LeafTypes ==
    {Class(n_int), Class(n_float), Class(n_str), Class(n_bool), Class(n_dict),
     Class(n_list), Class(n_bytes), Model(n_Weapon), Model(n_Ammo),
     UnionOf(Class(n_int), Class(n_str)), BareList}

RECURSIVE PyTypes(_)
PyTypes(d) ==
    IF d = 0 THEN LeafTypes
    ELSE LET P == PyTypes(d - 1)
         IN  P \cup {ListOf(t) : t \in P} \cup {Optional(t) : t \in P}
               \cup {DictOf(Class(n_str), t) : t \in P}

Defaults ==
    {PyNone, PyBool(TRUE), PyBool(FALSE),
     PyInt(0), PyInt(10), PyInt(-7), PyInt(1024),
     PyFloat(3, <<1, 4>>), PyFloat(10, <<0>>), PyFloat(0, <<5>>),
     PyStr("ok"), PyStr(""), PyStr("a\"b"),
     PyList(<<>>), PyList(<<PyInt(1), PyInt(2)>>),
     PyDict(<<>>), PyDict(<<<<PyStr("k"), PyInt(1)>>>>),
     PyTuple(<<PyInt(1)>>), PydanticUndefined}

FieldInfos ==
    {FieldInfo(TRUE, PydanticUndefined)} \cup {FieldInfo(FALSE, d) : d \in Defaults}

(***************************************************************************)
(* The inputs of the generator and of the generated classes.               *)
(***************************************************************************)
FieldNameOrder == <<"slot", "tags", "id">>

FieldTypes ==
    {Class(n_int), Class(n_str), Class(n_list), Class(n_dict),
     ListOf(Class(n_int)), DictOf(Class(n_str), Class(n_int)),
     Optional(Class(n_int)), Model(n_Ammo), ListOf(Model(n_Ammo))}

\* one FieldInfo for each annotation
InfoFor(t) ==
    CASE t = Class(n_int) -> FieldInfo(FALSE, PyInt(10))
      [] t = Optional(Class(n_int)) -> FieldInfo(FALSE, PyNone)
      [] t = ListOf(Class(n_int)) -> FieldInfo(FALSE, PyList(<<PyInt(1), PyInt(2)>>))
      [] OTHER -> FieldInfo(TRUE, PydanticUndefined)

\* the fields of a model class: up to k of the names, each with a type
RECURSIVE FieldSeqs(_, _)
FieldSeqs(names, k) ==
    IF names = <<>> THEN {<<>>}
    ELSE LET rest == FieldSeqs(Tail(names), k)
         IN  rest \cup {<<Field(Head(names), t, InfoFor(t))>> \o fs :
                           t \in FieldTypes, fs \in {r \in rest : Len(r) < k}}

WeaponModels == {ModelCls(n_Weapon, fs) : fs \in FieldSeqs(FieldNameOrder, MaxFields)}

Required == FieldInfo(TRUE, PydanticUndefined)

AmmoModels ==
    {ModelCls(n_Ammo, <<Field("grains", Class(n_int), FieldInfo(FALSE, PyInt(10)))>>),
     ModelCls(n_Ammo, <<Field("owner", Model(n_Weapon), Required)>>),
     ModelCls(n_Ammo, <<Field("id", Class(n_str), Required),
                        Field("owner", Model(n_Weapon), Required)>>)}

IntArr == GArray(<<GInt(1)>>)
Row    == GDict("id" :> GText("a1"))

RawValues ==
    {GInt(7), Row, GJson(Row), GArray(<<Row>>), GJson(GArray(<<Row>>))}

DataMaps(names) ==
    {GDict(m) : m \in UNION {[K -> RawValues] : K \in SUBSET names}}

ModelNamed(ms, n) == ms[CHOOSE i \in DOMAIN ms : ms[i].name = n]

\* the instances of a model class, references followed to a depth
RECURSIVE Instances(_, _, _)
RECURSIVE FieldValues(_, _, _)
RECURSIVE FieldMaps(_, _, _)
FieldValues(ms, t, d) ==
    IF is_model_list(t)
    THEN {GArray(<<>>)} \cup
         (IF d = 0 THEN {}
          ELSE {GArray(<<o>>) : o \in Instances(ms, get_args(t)[1].name, d - 1)})
    ELSE IF is_BaseModel_subclass(t)
    THEN {GNull} \cup (IF d = 0 THEN {} ELSE Instances(ms, t.name, d - 1))
    ELSE CASE t = Class(n_int) -> {GInt(7)}
           [] t = Class(n_str) -> {GJson(IntArr)}
           [] t = Optional(Class(n_int)) -> {GNull, GInt(7)}
           [] t \in {Class(n_dict), DictOf(Class(n_str), Class(n_int))} ->
                  {GDict("k" :> GInt(1))}
           [] OTHER -> {IntArr}

FieldMaps(ms, fs, d) ==
    IF fs = <<>> THEN {EmptyMap}
    ELSE {(Head(fs).name :> v) @@ r :
             v \in FieldValues(ms, Head(fs).annotation, d),
             r \in FieldMaps(ms, Tail(fs), d)}

Instances(ms, n, d) ==
    {GObject(class_name_of(n), f) : f \in FieldMaps(ms, ModelNamed(ms, n).fields, d)}

RowA  == GDict(("id" :> GText("a1")) @@ ("tags" :> IntArr) @@ ("slot" :> GInt(7)))
RowA2 == GDict(("id" :> GText("a1")) @@ ("slot" :> GInt(1)))
RowB  == GDict(("id" :> GText("b2")) @@ ("grains" :> GInt(7)))
RowX  == GDict(("id" :> GText("a1")) @@ ("slot" :> GInt(2)))

Storages ==
    {("weapons" :> <<RowB, RowA, RowA2>>) @@ ("Weapons" :> <<RowX>>)
        @@ ("ammos" :> <<RowA2, RowB>>) @@ ("Ammos" :> <<RowX>>),
     ("weapons" :> <<>>) @@ ("Weapons" :> <<RowX>>)
        @@ ("ammos" :> <<>>) @@ ("Ammos" :> <<RowX>>)}

Identifiers == {"a1", "b2", "zz"}

(***************************************************************************)
(* The initial values of the variables an operation does not use.          *)
(***************************************************************************)
TypeIdle ==
    /\ py_type = Class(n_int)
    /\ gd_type = Ok("")
    /\ field = FieldInfo(TRUE, PydanticUndefined)
    /\ default_val = ""

GenIdle ==
    /\ models = <<>>
    /\ generated = <<>>
    /\ regenerated = <<>>

RunIdle ==
    /\ target = ""
    /\ input = GNull
    /\ ret = Ok(GNull)
    /\ source = GNull
    /\ encoded = Ok(GNull)
    /\ query = <<>>

ScanIdle ==
    /\ pc = "idle"
    /\ stats = ConversionStats
    /\ remaining = 0
    /\ written = <<>>

ExecIdle ==
    /\ mode = "none"
    /\ run_pc = "idle"
    /\ stack = <<>>
    /\ heap = <<>>

(***************************************************************************)
(* The resolver and the emitter applied to any input.                      *)
(***************************************************************************)
TypeInit == last = "init" /\ TypeIdle /\ GenIdle /\ RunIdle /\ ScanIdle /\ ExecIdle

Resolve ==
    \E t \in PyTypes(MaxDepth) :
        /\ last' = "get_gd_type"
        /\ py_type' = t
        /\ gd_type' = get_gd_type(t)
        /\ UNCHANGED <<field, default_val, genVars, runVars, scanVars, execVars>>

Emit ==
    \E f \in FieldInfos :
        /\ last' = "get_default_value_code"
        /\ field' = f
        /\ default_val' = get_default_value_code(f)
        /\ UNCHANGED <<py_type, gd_type, genVars, runVars, scanVars, execVars>>

TypeNext == Resolve \/ Emit

TypeSpec == TypeInit /\ [][TypeNext]_vars

(***************************************************************************)
(* The generator applied to the model classes of a project in any order,   *)
(* twice, and then one operation of the generated classes.                 *)
(***************************************************************************)
NoClass == [none |-> TRUE]

GenInit ==
    /\ last = "init"
    /\ TypeIdle /\ RunIdle /\ ScanIdle /\ ExecIdle
    /\ \E w \in WeaponModels, a \in AmmoModels : models = <<w, a>>
    /\ generated = [i \in DOMAIN models |-> NoClass]
    /\ regenerated = [i \in DOMAIN models |-> NoClass]

AllGenerated == \A i \in DOMAIN models : generated[i] # NoClass

\* the classes GDScript knows by their class_name
Classes ==
    LET done == {i \in DOMAIN models : generated[i] # NoClass}
    IN  [cn \in {generated[i].class_name : i \in done} |->
            generated[CHOOSE i \in done : generated[i].class_name = cn]]

Generate ==
    /\ last \in {"init", "generate"}
    /\ \E i \in DOMAIN models :
        /\ generated[i] = NoClass
        /\ LET code == generate_class_code(models[i])
           IN  /\ ~code.raised
               /\ generated' = [generated EXCEPT ![i] = code.value]
        /\ last' = "generate"
        /\ UNCHANGED <<models, regenerated, typeVars, runVars, scanVars, execVars>>

Regenerate ==
    /\ last \in {"generate", "regenerate"}
    /\ AllGenerated
    /\ \E i \in DOMAIN models :
        /\ regenerated[i] = NoClass
        /\ LET code == generate_class_code(models[i])
           IN  /\ ~code.raised
               /\ regenerated' = [regenerated EXCEPT ![i] = code.value]
        /\ last' = "regenerate"
        /\ UNCHANGED <<models, generated, typeVars, runVars, scanVars, execVars>>

Decode ==
    /\ AllGenerated /\ last = "generate"
    /\ \E i \in DOMAIN models :
      \E d \in DataMaps(FieldNames(models[i].fields)) :
        /\ target' = generated[i].class_name
        /\ input' = d
        /\ ret' = from_dict(Classes, generated[i].class_name, d)
        /\ last' = "from_dict"
        /\ UNCHANGED <<source, encoded, query, genVars, typeVars, scanVars, execVars>>

Encode ==
    /\ AllGenerated /\ last = "generate"
    /\ \E i \in DOMAIN models :
      \E self \in Instances(models, models[i].name, MaxObjDepth) :
        /\ target' = generated[i].class_name
        /\ source' = self
        /\ encoded' = to_dict(Classes, self)
        /\ last' = "to_dict"
        /\ UNCHANGED <<input, ret, query, genVars, typeVars, scanVars, execVars>>

DecodeEncoded ==
    /\ last = "to_dict"
    /\ ~encoded.raised
    /\ input' = encoded.value
    /\ ret' = from_dict(Classes, target, encoded.value)
    /\ last' = "from_dict(to_dict)"
    /\ UNCHANGED <<target, source, encoded, query, genVars, typeVars, scanVars, execVars>>

Lookup ==
    /\ AllGenerated /\ last = "generate"
    /\ \E i \in DOMAIN models, db \in Storages, id \in Identifiers :
        /\ generated[i].get_by_id
        /\ target' = generated[i].class_name
        /\ query' = <<db, id>>
        /\ ret' = get_by_id(Classes, generated[i].class_name, db, id)
        /\ last' = "get_by_id"
        /\ UNCHANGED <<input, source, encoded, genVars, typeVars, scanVars, execVars>>

GenNext == Generate \/ Regenerate \/ Decode \/ Encode \/ DecodeEncoded \/ Lookup

GenSpec == GenInit /\ [][GenNext]_vars

(***************************************************************************)
(* process_all_schemas over the files of the source directory.             *)
(***************************************************************************)
PlainModel  == ModelCls(n_Weapon, <<Field("id", Class(n_str), Required),
                                    Field("damage", Class(n_int), FieldInfo(FALSE, PyInt(10)))>>)
OtherModel  == ModelCls(n_Ammo, <<Field("grains", Class(n_int), Required)>>)
BrokenModel == ModelCls(n_Ammo, <<Field("rounds", BareList, Required)>>)
Path        == [name |-> <<"P", "a", "t", "h">>, fields |-> <<>>]

SchemaFiles ==
    {SchemaFile("__init__", TRUE, "none", <<>>),
     SchemaFile("nospec", FALSE, "none", <<>>),
     SchemaFile("boom", TRUE, "No module named 'missing'", <<>>),
     SchemaFile("silent", TRUE, "", <<>>),
     SchemaFile("empty", TRUE, "none", <<Member(BaseModel, TRUE, TRUE, "pydantic.main")>>),
     SchemaFile("imports", TRUE, "none",
                <<Member(BaseModel, TRUE, TRUE, "pydantic.main"),
                  Member(PlainModel, TRUE, TRUE, "weapon"),
                  Member(Path, TRUE, FALSE, "pathlib"),
                  Member(OtherModel, FALSE, FALSE, "imports")>>),
     SchemaFile("weapon", TRUE, "none",
                <<Member(BaseModel, TRUE, TRUE, "pydantic.main"),
                  Member(PlainModel, TRUE, TRUE, "weapon")>>),
     SchemaFile("arms", TRUE, "none",
                <<Member(OtherModel, TRUE, TRUE, "arms"), Member(PlainModel, TRUE, TRUE, "arms")>>),
     SchemaFile("broken", TRUE, "none",
                <<Member(BrokenModel, TRUE, TRUE, "broken"),
                  Member(PlainModel, TRUE, TRUE, "broken")>>)}

ScanInit ==
    /\ last = "init"
    /\ TypeIdle /\ GenIdle /\ RunIdle /\ ExecIdle
    /\ pc = "start"
    /\ stats = ConversionStats
    /\ remaining \in 0..MaxFiles
    /\ written = <<>>

\* the source directory does not exist: the function returns, no report
SourceMissing ==
    /\ pc = "start"
    /\ pc' = "returned"
    /\ last' = "process_all_schemas"
    /\ UNCHANGED <<stats, remaining, written, typeVars, genVars, runVars, execVars>>

StartScan ==
    /\ pc = "start"
    /\ pc' = "loop"
    /\ last' = "process_all_schemas"
    /\ UNCHANGED <<stats, remaining, written, typeVars, genVars, runVars, execVars>>

ProcessFile ==
    /\ pc = "loop"
    /\ remaining > 0
    /\ \E f \in SchemaFiles, written_ok \in BOOLEAN, printed_ok \in BOOLEAN :
          LET after == process_file(stats, written, f, written_ok, printed_ok)
          IN  /\ stats' = after.stats
              /\ written' = after.written
    /\ remaining' = remaining - 1
    /\ last' = "file"
    /\ UNCHANGED <<pc, typeVars, genVars, runVars, execVars>>

PrintReport ==
    /\ pc = "loop"
    /\ remaining = 0
    /\ pc' = "report"
    /\ last' = "print_report"
    /\ UNCHANGED <<stats, remaining, written, typeVars, genVars, runVars, execVars>>

ScanNext == SourceMissing \/ StartScan \/ ProcessFile \/ PrintReport

ScanSpec == ScanInit /\ [][ScanNext]_vars

(***************************************************************************)
(* The generated from_dict and to_dict executed statement by statement,    *)
(* with the call stack of their recursion.  to_dict runs on instances that *)
(* refer to each other by identity; from_dict runs on a map.  A frame is   *)
(* one activation: the class, the instance (to_dict) or the map            *)
(* (from_dict), the field it stands at, the item it stands at inside a     *)
(* list, and what it has built so far.                                     *)
(***************************************************************************)
MaxStack == MaxObjs + MaxDataDepth + 2

Ref(id) == [t |-> "Object", v |-> <<id>>]

Frame(cn, self, d, acc) ==
    [cn |-> cn, self |-> self, data |-> d, i |-> 1, k |-> 0, acc |-> acc]

Put(acc, name, val) ==
    [n \in DOMAIN acc \cup {name} |-> IF n = name THEN val ELSE acc[n]]

Top == stack[Len(stack)]

Entries(fr) ==
    IF mode = "to_dict" THEN Classes[fr.cn].to_dict ELSE Classes[fr.cn].from_dict

AtEnd(fr) == fr.i > Len(Entries(fr))

Entry(fr) == Entries(fr)[fr.i]

\* the value the statement at the top frame works on: the field of self
\* (to_dict) or the raw value of the key, parsed when it is text (from_dict)
Subject(fr) ==
    IF mode = "to_dict" THEN heap[fr.self].fields[Entry(fr).name]
    ELSE parsed_raw(Entry(fr).logic, data_get(fr.data, Entry(fr).name).value)

\* whether the statement at the top frame is skipped by its guard
Skipped(fr) ==
    IF mode = "to_dict"
    THEN Entry(fr).logic \in {"A", "B"} /\ Subject(fr) = GNull
    ELSE \/ ~data_has(fr.data, Entry(fr).name)
         \/ Entry(fr).logic = "A" /\ ~is_Array(Subject(fr))

\* whether the statement at the top frame is a call of the same function
IsCall(fr) ==
    /\ ~AtEnd(fr) /\ ~Skipped(fr)
    /\ \/ Entry(fr).logic = "B"
       \/ /\ Entry(fr).logic = "A"
          /\ is_Array(Subject(fr))
          /\ fr.k >= 1 /\ fr.k <= Len(Subject(fr).v)

call_argument_data(fr) ==
    IF Entry(fr).logic = "B" THEN (IF mode = "to_dict" THEN Ref(fr.self) ELSE fr.data)
    ELSE Subject(fr).v[fr.k]

\* the argument of the call: raw or the item (from_dict), the field or the
\* item (to_dict)
call_argument(fr) ==
    IF Entry(fr).logic = "B" THEN Subject(fr) ELSE Subject(fr).v[fr.k]

\* whether the call can be made: to_dict is a method of an instance, and
\* from_dict takes a Dictionary
Callable(arg) ==
    IF mode = "to_dict" THEN arg.t = "Object"
    ELSE arg.t = "Dictionary"

Callee(fr, arg) ==
    IF mode = "to_dict"
    THEN Frame(heap[arg.v[1]].cn, arg.v[1], GNull, EmptyMap)
    ELSE Frame(Entry(fr).inner_cls, 0, arg,
               new_instance(Classes[Entry(fr).inner_cls]).v[2])

\* the frame after a statement that is no call
Stepped(fr) ==
    IF Skipped(fr) THEN [fr EXCEPT !.i = @ + 1, !.k = 0]
    ELSE IF Entry(fr).logic = "A"
    THEN IF fr.k = 0
         THEN [fr EXCEPT !.k = 1, !.acc = Put(@, Entry(fr).name, GArray(<<>>))]
         ELSE [fr EXCEPT !.i = @ + 1, !.k = 0]
    ELSE [fr EXCEPT !.i = @ + 1, !.acc = Put(@, Entry(fr).name, Subject(fr))]

\* the frame of the caller after the call returned val
Resumed(fr, val) ==
    IF Entry(fr).logic = "B"
    THEN [fr EXCEPT !.i = @ + 1, !.acc = Put(@, Entry(fr).name, val)]
    ELSE [fr EXCEPT !.k = @ + 1,
                    !.acc = Put(@, Entry(fr).name,
                                GArray(Append(fr.acc[Entry(fr).name].v, val)))]

Returned(fr) ==
    IF mode = "to_dict" THEN GDict(fr.acc) ELSE GObject(fr.cn, fr.acc)

\* the model classes of an execution: one field each, that may refer to
\* the other class, to the class itself, or to none
LinkTypes(self, other) ==
    {Class(n_int), Model(other), ListOf(Model(other)), Model(self)}

ExecModels ==
    {<<ModelCls(n_Weapon, <<Field("next", tw, Required)>>),
       ModelCls(n_Ammo, <<Field("next", ta, Required)>>)>> :
        tw \in LinkTypes(n_Weapon, n_Ammo),
        ta \in LinkTypes(n_Ammo, n_Weapon) \ {Model(n_Ammo)}}

\* maps nested to a depth, structured or as text
RECURSIVE NestedData(_)
NestedData(d) ==
    IF d = 0 THEN {GDict(EmptyMap)}
    ELSE LET inner == NestedData(d - 1)
         IN  {GDict(EmptyMap), GDict("next" :> GInt(7))}
               \cup {GDict("next" :> x) : x \in inner}
               \cup {GDict("next" :> GJson(x)) : x \in inner}
               \cup {GDict("next" :> GArray(<<x>>)) : x \in inner}
               \cup {GDict("next" :> GArray(<<x, x>>)) : x \in inner}

\* the values a field may hold in a heap of n instances
LinkValues(ms, cn, t, classOf) ==
    LET n == Len(classOf)
        of(c) == {j \in 1..n : classOf[j] = c}
    IN  IF is_model_list(t)
        THEN LET js == of(class_name_of(get_args(t)[1].name))
             IN  {GArray(<<>>)} \cup {GArray(<<j>>) : j \in {Ref(q) : q \in js}}
                   \cup {GArray(<<Ref(a), Ref(b)>>) : a \in js, b \in js}
        ELSE IF is_BaseModel_subclass(t)
        THEN {GNull} \cup {Ref(j) : j \in of(class_name_of(t.name))}
        ELSE {GInt(7)}

\* the annotation of the one field of the class named cn
LinkTypeOf(ms, cn) ==
    (ms[CHOOSE i \in DOMAIN ms : class_name_of(ms[i].name) = cn]).fields[1].annotation

\* the values of the fields of the first j instances
RECURSIVE HeapLinks(_, _, _)
HeapLinks(ms, classOf, j) ==
    IF j = 0 THEN {<<>>}
    ELSE {Append(l, v) :
             l \in HeapLinks(ms, classOf, j - 1),
             v \in LinkValues(ms, classOf[j], LinkTypeOf(ms, classOf[j]), classOf)}

\* the heaps of up to MaxObjs instances, each of either class
Heaps(ms) ==
    LET names == {class_name_of(ms[i].name) : i \in DOMAIN ms}
    IN  UNION {
          UNION {
            {[j \in 1..n |-> [cn |-> classOf[j], fields |-> ("next" :> links[j])]] :
                links \in HeapLinks(ms, classOf, n)}
            : classOf \in [1..n -> names]}
          : n \in 1..MaxObjs}

ExecInit ==
    /\ last = "init"
    /\ TypeIdle /\ RunIdle /\ ScanIdle /\ ExecIdle
    /\ models \in ExecModels
    /\ generated = [i \in DOMAIN models |-> generate_class_code(models[i]).value]
    /\ regenerated = [i \in DOMAIN models |-> NoClass]

\* ClassName.from_dict(data) is called
StartDecode ==
    /\ run_pc = "idle"
    /\ \E i \in DOMAIN models, d \in NestedData(MaxDataDepth) :
          /\ mode' = "from_dict"
          /\ target' = generated[i].class_name
          /\ input' = d
          /\ heap' = <<>>
          /\ stack' = <<Frame(generated[i].class_name, 0, d,
                              new_instance(generated[i]).v[2])>>
    /\ run_pc' = "running"
    /\ last' = "from_dict"
    /\ UNCHANGED <<ret, source, encoded, query, typeVars, genVars, scanVars>>

\* instance.to_dict() is called on the first instance of a heap
StartEncode ==
    /\ run_pc = "idle"
    /\ \E h \in Heaps(models) :
          /\ mode' = "to_dict"
          /\ target' = h[1].cn
          /\ source' = Ref(1)
          /\ heap' = h
          /\ stack' = <<Frame(h[1].cn, 1, GNull, EmptyMap)>>
    /\ run_pc' = "running"
    /\ last' = "to_dict"
    /\ UNCHANGED <<input, ret, encoded, query, typeVars, genVars, scanVars>>

\* a statement that calls nothing
RunStep ==
    /\ run_pc = "running"
    /\ ~AtEnd(Top) /\ ~IsCall(Top)
    /\ stack' = [stack EXCEPT ![Len(stack)] = Stepped(Top)]
    /\ UNCHANGED <<last, mode, run_pc, heap, runVars, typeVars, genVars, scanVars>>

\* a recursive call
RunCall ==
    /\ run_pc = "running"
    /\ IsCall(Top)
    /\ Callable(call_argument(Top))
    /\ Len(stack) < MaxStack
    /\ stack' = Append(stack, Callee(Top, call_argument(Top)))
    /\ UNCHANGED <<last, mode, run_pc, heap, runVars, typeVars, genVars, scanVars>>

\* a call that GDScript refuses: the argument has not the type of the
\* parameter, or has no such method
RunFail ==
    /\ run_pc = "running"
    /\ IsCall(Top)
    /\ ~Callable(call_argument(Top))
    /\ run_pc' = "error"
    /\ ret' = Raise("invalid call")
    /\ UNCHANGED <<last, mode, stack, heap, target, input, source, encoded, query,
                   typeVars, genVars, scanVars>>

\* a call deeper than the stack: the recursion does not come back
RunOverflow ==
    /\ run_pc = "running"
    /\ IsCall(Top)
    /\ Callable(call_argument(Top))
    /\ Len(stack) = MaxStack
    /\ run_pc' = "overflow"
    /\ UNCHANGED <<last, mode, stack, heap, runVars, typeVars, genVars, scanVars>>

\* return instance / return data
RunReturn ==
    /\ run_pc = "running"
    /\ AtEnd(Top)
    /\ IF Len(stack) = 1
       THEN /\ stack' = <<>>
            /\ run_pc' = "done"
            /\ ret' = Ok(Returned(Top))
       ELSE /\ stack' = [SubSeq(stack, 1, Len(stack) - 1) EXCEPT
                            ![Len(stack) - 1] = Resumed(stack[Len(stack) - 1], Returned(Top))]
            /\ UNCHANGED <<run_pc, ret>>
    /\ UNCHANGED <<last, mode, heap, target, input, source, encoded, query,
                   typeVars, genVars, scanVars>>

ExecNext ==
    StartDecode \/ StartEncode \/ RunStep \/ RunCall \/ RunFail \/ RunOverflow \/ RunReturn

\* the interpreter executes the next statement as long as there is one
ExecSpec == ExecInit /\ [][ExecNext]_vars /\ WF_vars(ExecNext)

(***************************************************************************)
(* Properties of the type resolver and of the default value emitter.       *)
(***************************************************************************)

\* a descriptor in which every list has its element descriptor
RECURSIVE WellFormed(_)
WellFormed(t) ==
    /\ t # BareList
    /\ \A i \in DOMAIN get_args(t) : WellFormed(get_args(t)[i])

IsNullable(t) == get_origin(t) = "Union" /\ NoneType \in Range(get_args(t))
IsListOf(t)   == get_origin(t) = "list" /\ Len(get_args(t)) = 1
IsSchemaReference(t) == t.is_model

\* the resolution rules as the specification lists them, first match first
RECURSIVE Resolved(_)
Resolved(t) ==
    IF IsNullable(t) THEN "Variant"
    ELSE IF IsListOf(t) THEN "Array[" \o Resolved(get_args(t)[1]) \o "]"
    ELSE IF IsSchemaReference(t) THEN Str(t.name) \o "Data"
    ELSE IF t = Class(n_int) THEN "int"
    ELSE IF t = Class(n_float) THEN "float"
    ELSE IF t = Class(n_str) THEN "String"
    ELSE IF t = Class(n_bool) THEN "bool"
    ELSE IF t = Class(n_dict) THEN "Dictionary"
    ELSE IF t = Class(n_list) THEN "Array"
    ELSE "Variant"

\* C1: get_gd_type is total on type descriptors: for every well-formed
\* descriptor, an unrecognized primitive kind and every nesting of lists and
\* nullables included, it raises nothing and returns a non-empty type name.
C1_ResolveTotal ==
    (last = "get_gd_type" /\ WellFormed(py_type))
        => (~gd_type.raised /\ Len(gd_type.value) > 0)

C1_Witness ==
    /\ last = "get_gd_type"
    /\ py_type = ListOf(ListOf(Class(n_bytes)))
    /\ gd_type = Ok("Array[Array[Variant]]")

\* C2: get_gd_type returns the result of the first matching rule: a nullable
\* gives Variant whatever it wraps, a list gives Array[ resolve(T) ], a schema
\* reference gives its name followed by Data, a primitive gives its table
\* entry, and anything else gives Variant.
C2_ResolveRules ==
    (last = "get_gd_type" /\ WellFormed(py_type))
        => gd_type = Ok(Resolved(py_type))

C2_Witness ==
    /\ last = "get_gd_type"
    /\ py_type = ListOf(Optional(Model(n_Weapon)))
    /\ gd_type = Ok("Array[Variant]")

\* the literal text the specification fixes for a default, "" for none
LiteralOf(d) ==
    CASE d = PyNone -> "null"
      [] d = PyBool(TRUE) -> "true"
      [] d = PyBool(FALSE) -> "false"
      [] d = PyInt(0) -> "0"
      [] d = PyInt(10) -> "10"
      [] d = PyInt(-7) -> "-7"
      [] d = PyInt(1024) -> "1024"
      [] d = PyFloat(3, <<1, 4>>) -> "3.14"
      [] d = PyFloat(10, <<0>>) -> "10.0"
      [] d = PyFloat(0, <<5>>) -> "0.5"
      [] d.t = "str" -> "\"" \o d.v[1] \o "\""
      [] d.t = "list" -> "[]"
      [] d.t = "dict" -> "{}"
      [] OTHER -> ""

\* C3, as the specification states it: the emitter returns the empty string
\* for a required field and otherwise the bare literal text of the default
\* (3.14 gives "3.14"), a default of another shape giving the empty string.
C3_BareLiteral ==
    last = "get_default_value_code"
        => default_val = (IF is_required(field) THEN "" ELSE LiteralOf(field.default))

\* C3, amended: the emitter returns the empty string for a required field
\* and for a default of another shape, and otherwise the initializer clause
\* " = " followed by the literal text of the default: null, true or false,
\* the number verbatim, the string in quotes without escaping, [] or {}.
C3_InitializerClause ==
    last = "get_default_value_code"
        => default_val =
             (IF is_required(field) \/ LiteralOf(field.default) = "" THEN ""
              ELSE " = " \o LiteralOf(field.default))

C3_Witness ==
    /\ last = "get_default_value_code"
    /\ ~is_required(field)
    /\ field.default = PyFloat(3, <<1, 4>>)
    /\ default_val = " = 3.14"

(***************************************************************************)
(* Properties of the generator and of the generated classes.               *)
(***************************************************************************)
Done == {i \in DOMAIN models : generated[i] # NoClass}

\* the model class whose generated class the last operation was called on
TargetModel == models[CHOOSE i \in DOMAIN models : generated[i].class_name = target]

\* the collection name the specification derives, lower-cased with an s
CollectionOf(m) == IF m.name = n_Weapon THEN "weapons" ELSE "ammos"

HelperLine(c) == "static func get_by_id(db: SQLite, id: String) -> " \o c.class_name \o ":"

MatchingRows(db, table, id) ==
    SelectSeq(db[table], LAMBDA row : row.v["id"] = GText(id))

\* C4: the generator emits get_by_id exactly for a model class with a field
\* named id; the helper reads the collection named by the lower-cased class
\* name with an s, returns null when no row matches and otherwise from_dict
\* of the first matching row.
C4_LookupHelper ==
    /\ \A i \in Done :
          /\ generated[i].get_by_id <=> (\E k \in DOMAIN models[i].fields :
                                            models[i].fields[k].name = "id")
          /\ HelperLine(generated[i]) \in Range(generated[i].lines)
                <=> (\E k \in DOMAIN models[i].fields : models[i].fields[k].name = "id")
          /\ generated[i].table_name = CollectionOf(models[i])
          /\ ("const TABLE_NAME = \"" \o CollectionOf(models[i]) \o "\"")
                \in Range(generated[i].lines)
    /\ last = "get_by_id" =>
          LET rows == MatchingRows(query[1], CollectionOf(TargetModel), query[2])
          IN  ret = IF rows = <<>> THEN Ok(GNull)
                    ELSE from_dict(Classes, target, rows[1])

C4_Witness ==
    /\ last = "get_by_id"
    /\ target = "WeaponData"
    /\ query[2] = "a1"
    /\ ~ret.raised
    /\ ret.value.t = "Object"
    /\ "slot" \in DOMAIN ret.value.v[2]
    /\ ret.value.v[2]["slot"] = GInt(7)
    /\ \E i \in Done : ~generated[i].get_by_id

\* the field types of the round-trip law: primitives, lists and maps of
\* primitives, schema references and lists of them
IsPrimitive(t) == t \in {Class(n_int), Class(n_str), Class(n_list), Class(n_dict)}
InRoundTripScope(t) ==
    \/ IsPrimitive(t)
    \/ IsListOf(t) /\ IsPrimitive(get_args(t)[1])
    \/ get_origin(t) = "dict" /\ \A k \in DOMAIN get_args(t) : IsPrimitive(get_args(t)[k])
    \/ IsSchemaReference(t)
    \/ IsListOf(t) /\ IsSchemaReference(get_args(t)[1])

References(m) ==
    {models[j].name : j \in {j \in DOMAIN models :
        \E k \in DOMAIN m.fields :
            m.fields[k].annotation \in {Model(models[j].name), ListOf(Model(models[j].name))}}}

\* the model classes an instance of m can hold, m included
Reachable(m) ==
    LET one == {m.name} \cup References(m)
    IN  one \cup UNION {References(ModelNamed(models, n)) : n \in one}

\* C5: for a model class whose fields, and those of every class it refers
\* to, are primitives, lists or maps of primitives, schema references or
\* lists of schema references, from_dict(to_dict(instance)) equals the
\* instance field by field, nested instances included.
C5_RoundTrip ==
    (/\ last = "from_dict(to_dict)"
     /\ \A n \in Reachable(TargetModel) :
           \A k \in DOMAIN ModelNamed(models, n).fields :
               InRoundTripScope(ModelNamed(models, n).fields[k].annotation))
        => ret = Ok(source)

C5_Witness ==
    /\ last = "from_dict(to_dict)"
    /\ target = "WeaponData"
    /\ ret = Ok(source)
    /\ \E n \in DOMAIN source.v[2] :
          /\ source.v[2][n].t = "Array"
          /\ source.v[2][n].v # <<>>
          /\ source.v[2][n].v[1].t = "Object"
          /\ \E q \in DOMAIN source.v[2][n].v[1].v[2] :
                 source.v[2][n].v[1].v[2][q].t = "Object"
    /\ \E n \in DOMAIN source.v[2] : source.v[2][n] = GJson(IntArr)

\* a generic collection without a schema reference: a list of something that
\* is no schema, an untyped map, an untyped array
IsGenericCollection(t) ==
    \/ IsListOf(t) /\ ~IsSchemaReference(get_args(t)[1])
    \/ t = Class(n_dict)
    \/ t = Class(n_list)

\* C6: in from_dict every field that is a generic collection without schema
\* reference is assigned the parsed text when its key is present and the raw
\* value is a String, and the raw value unchanged otherwise.
C6_CollectionsParsed ==
    (last = "from_dict" /\ ~ret.raised) =>
        \A k \in DOMAIN TargetModel.fields :
            LET f == TargetModel.fields[k] IN
            (IsGenericCollection(f.annotation) /\ f.name \in DOMAIN input.v) =>
                ret.value.v[2][f.name] =
                    IF is_String(input.v[f.name])
                    THEN JSON_parse_string(input.v[f.name])
                    ELSE input.v[f.name]

\* C7: in from_dict a field whose key the input map lacks keeps the value of
\* its declaration, and no error comes of a missing key: every assignment is
\* guarded by the presence of the key.
C7_MissingKeyKeepsDefault ==
    last \in {"from_dict", "from_dict(to_dict)"} =>
        /\ ~ret.raised =>
              \A k \in DOMAIN TargetModel.fields :
                  LET f == TargetModel.fields[k] IN
                  f.name \notin DOMAIN input.v =>
                      ret.value.v[2][f.name] = declared_default(f)
        /\ ret.raised =>
              \E k \in DOMAIN TargetModel.fields :
                  TargetModel.fields[k].name \in DOMAIN input.v

C7_Witness ==
    /\ last = "from_dict"
    /\ ~ret.raised
    /\ \E k, q \in DOMAIN TargetModel.fields :
          /\ TargetModel.fields[k].name \notin DOMAIN input.v
          /\ TargetModel.fields[k].annotation = Class(n_int)
          /\ ret.value.v[2][TargetModel.fields[k].name] = GInt(10)
          /\ TargetModel.fields[q].name \in DOMAIN input.v
          /\ TargetModel.fields[q].annotation = Model(n_Ammo)

\* C8: the class name a generated class uses for a field that refers to a
\* schema, alone or in a list (in the declaration, in the from_dict call and
\* in the resolved type) is the class name generated for that schema, and a
\* class generated again, after other classes, has the same text.
C8_NamesByConvention ==
    /\ \A i \in Done : generated[i].lines[1] = "class_name " \o generated[i].class_name
    /\ \A i \in Done, j \in Done :
          \A k \in DOMAIN models[i].fields :
              LET f == models[i].fields[k]
                  user == generated[i]
                  cn == generated[j].class_name
              IN  /\ f.annotation = Model(models[j].name) =>
                        /\ user.vars[k].gd_type = cn
                        /\ user.from_dict[k].inner_cls = cn
                        /\ ("var " \o f.name \o ": " \o cn \o user.vars[k].default_val)
                              \in Range(user.lines)
                        /\ ("\t\tinstance." \o f.name \o " = " \o cn \o ".from_dict(raw)")
                              \in Range(user.lines)
                  /\ f.annotation = ListOf(Model(models[j].name)) =>
                        /\ user.vars[k].gd_type = "Array[" \o cn \o "]"
                        /\ user.from_dict[k].inner_cls = cn
                        /\ ("var " \o f.name \o ": Array[" \o cn \o "]"
                               \o user.vars[k].default_val) \in Range(user.lines)
                        /\ ("\t\t\t\tinstance." \o f.name \o ".append(" \o cn
                               \o ".from_dict(item))") \in Range(user.lines)
    /\ \A i \in DOMAIN models :
          regenerated[i] # NoClass => regenerated[i] = generated[i]

C8_Witness ==
    /\ \A i \in DOMAIN models : generated[i] # NoClass /\ regenerated[i] # NoClass
    /\ \E k \in DOMAIN models[1].fields :
          models[1].fields[k].annotation = ListOf(Model(n_Ammo))
    /\ \E k \in DOMAIN models[2].fields :
          models[2].fields[k].annotation = Model(n_Weapon)

(***************************************************************************)
(* Properties of process_all_schemas.                                      *)
(***************************************************************************)

\* C10: after each scanned file has been handled, and so in the report, every
\* scanned file is counted in exactly one outcome: files_scanned is the sum
\* of files_success, files_failed and files_skipped, and there is one error
\* message for each failed file.
C10_EveryFileCountedOnce ==
    pc \in {"loop", "report"} =>
        /\ stats.files_scanned =
              stats.files_success + stats.files_failed + stats.files_skipped
        /\ Len(stats.errors) = stats.files_failed

(***************************************************************************)
(* Properties of the recursion of the generated from_dict and to_dict.     *)
(***************************************************************************)
RefsOf(val) ==
    IF val.t = "Object" THEN {val.v[1]}
    ELSE IF val.t = "Array" THEN {val.v[k].v[1] : k \in DOMAIN val.v}
    ELSE {}

Successors(h, j) == UNION {RefsOf(h[j].fields[n]) : n \in DOMAIN h[j].fields}

RECURSIVE Closure(_, _, _)
Closure(h, S, n) ==
    IF n = 0 THEN S
    ELSE Closure(h, S \cup UNION {Successors(h, j) : j \in S}, n - 1)

\* the instance to_dict is called on reaches an instance that reaches itself
HeapCyclic ==
    /\ heap # <<>>
    /\ \E j \in Closure(heap, {1}, Len(heap)) :
          j \in Closure(heap, Successors(heap, j), Len(heap))

RECURSIVE SchemaClosure(_, _)
SchemaClosure(S, n) ==
    IF n = 0 THEN S
    ELSE SchemaClosure(S \cup UNION {References(ModelNamed(models, x)) : x \in S}, n - 1)

\* some model class refers to itself, directly or through other classes
SchemaCyclic ==
    \E i \in DOMAIN models :
        models[i].name \in SchemaClosure(References(models[i]), Len(models))

\* C9, as the specification states it: with cyclic schema references the
\* generated from_dict and to_dict do not terminate.
C9_CyclicNeverTerminates ==
    (SchemaCyclic /\ mode \in {"from_dict", "to_dict"}) => run_pc # "done"

\* C9, amended: the recursion follows the data, not the schema graph.  Every
\* execution ends or overflows the stack; it overflows only in to_dict, on
\* an instance that reaches a cycle of references, which takes a cyclic
\* schema graph; to_dict on such an instance never returns.  So from_dict
\* terminates on every finite map, to_dict on every instance without a
\* cycle, and both on every input when the schema graph is acyclic.
C9_TerminationByData ==
    /\ [](run_pc = "running" => <>(run_pc \in {"done", "error", "overflow"}))
    /\ [](run_pc = "overflow" => (mode = "to_dict" /\ HeapCyclic /\ SchemaCyclic))
    /\ []((mode = "to_dict" /\ HeapCyclic) => run_pc # "done")

C9_Witness ==
    /\ SchemaCyclic
    /\ mode = "from_dict"
    /\ run_pc = "done"
    /\ target = "WeaponData"
    /\ ret.value.v[2]["next"].t = "Object"
    /\ ret.value.v[2]["next"].v[1] = "AmmoData"
    /\ ret.value.v[2]["next"].v[2]["next"].t = "Object"
    /\ ret.value.v[2]["next"].v[2]["next"].v[1] = "WeaponData"

\* the execution statement by statement returns what from_dict returns
ExecAgrees ==
    (mode = "from_dict" /\ run_pc \in {"done", "error"})
        => /\ ret.raised = from_dict(Classes, target, input).raised
           /\ ~ret.raised => ret = from_dict(Classes, target, input)

====
